---- MODULE Spec2Model ----
(***************************************************************************)
(* Wound risk assessment (main.py): validate_inputs, assess,               *)
(* assess_wound_api, the report formatters, the batch harness              *)
(* run_all_tests, run_interactive_mode and main.                           *)
(*                                                                         *)
(* Numbers.  A Python float is modelled as a record [c, v]: c is its       *)
(* class ("fin", "inf", "ninf", "nan") and, for a finite float, v is its   *)
(* value in hundredths (1.5 is 150, 5.01 is 501).  Every threshold of the  *)
(* program is an integer and every number of the built-in table has at     *)
(* most two fractional digits, so the comparisons of the program are exact *)
(* on this grid.                                                           *)
(*                                                                         *)
(* Text.  A Python str is a sequence of one-character strings.  The        *)
(* program's messages are Chinese text; they are written here in ASCII,    *)
(* one distinct message per source message.                                *)
(***************************************************************************)
EXTENDS Integers, Sequences, FiniteSets, TLC

\* Largest number of whitespace characters put on either side of a text input.
MaxPad == 1

\* Hundredths per unit.
Scale == 10 * 10

-----------------------------------------------------------------------------
(* Characters and str methods *)

LowerLetters ==
  <<"a","b","c","d","e","f","g","h","i","j","k","l","m",
    "n","o","p","q","r","s","t","u","v","w","x","y","z">>

UpperLetters ==
  <<"A","B","C","D","E","F","G","H","I","J","K","L","M",
    "N","O","P","Q","R","S","T","U","V","W","X","Y","Z">>

Digits == <<"0","1","2","3","4","5","6","7","8","9">>

Whitespace == {" ", "\t"}

\* Position of c in the sequence xs, 0 when absent.
IndexOf(xs, c) ==
  IF \E i \in 1..Len(xs) : xs[i] = c
    THEN CHOOSE i \in 1..Len(xs) : xs[i] = c
    ELSE 0

\* str.lower() on one character.
LowerChar(c) ==
  IF IndexOf(UpperLetters, c) > 0 THEN LowerLetters[IndexOf(UpperLetters, c)] ELSE c

\* str.upper() on one character.
UpperChar(c) ==
  IF IndexOf(LowerLetters, c) > 0 THEN UpperLetters[IndexOf(LowerLetters, c)] ELSE c

\* str.lower()
lower(s) == [i \in 1..Len(s) |-> LowerChar(s[i])]

\* str.strip(): drops the leading and the trailing whitespace.
strip(s) ==
  IF \A i \in 1..Len(s) : s[i] \in Whitespace
    THEN <<>>
    ELSE LET first == CHOOSE i \in 1..Len(s) :
                        /\ s[i] \notin Whitespace
                        /\ \A j \in 1..(i-1) : s[j] \in Whitespace
             last  == CHOOSE i \in 1..Len(s) :
                        /\ s[i] \notin Whitespace
                        /\ \A j \in (i+1)..Len(s) : s[j] \in Whitespace
         IN  SubSeq(s, first, last)

\* A capitalize() that upper-cases the first character and leaves the rest.
capitalize_keep_rest(s) ==
  [i \in 1..Len(s) |-> IF i = 1 THEN UpperChar(s[i]) ELSE s[i]]

\* str.capitalize(): first character upper-case, the rest lower-case.
capitalize(s) ==
  [i \in 1..Len(s) |-> IF i = 1 THEN UpperChar(s[i]) ELSE LowerChar(s[i])]

-----------------------------------------------------------------------------
(* Python values *)

\* Python floats.
Fin(h) == [c |-> "fin", v |-> h]
Inf    == [c |-> "inf", v |-> 0]
NegInf == [c |-> "ninf", v |-> 0]
NaN    == [c |-> "nan", v |-> 0]

\* Raw (untyped) values a caller can pass: t is the Python type.
PyFloat(f) == [t |-> "float", c |-> f.c, v |-> f.v, s |-> <<>>]
\* An int n that float() can convert.
PyInt(n)   == [t |-> "int", c |-> "fin", v |-> n, s |-> <<>>]
\* An int beyond the range of a float, such as 10**400 ("huge") or
\* -(10**400) ("nhuge").
PyBigInt(c) == [t |-> "int", c |-> c, v |-> 0, s |-> <<>>]
PyStr(s)   == [t |-> "str", c |-> "fin", v |-> 0, s |-> s]
PyNone     == [t |-> "NoneType", c |-> "fin", v |-> 0, s |-> <<>>]
PyList     == [t |-> "list", c |-> "fin", v |-> 0, s |-> <<>>]

-----------------------------------------------------------------------------
(* float(): the conversion validate_inputs applies to woundArea and painLevel *)

\* sys.float_info.max_10_exp: a decimal numeral whose leading digit stands at
\* a power of ten above this one converts to inf.
FloatMaxExp10 == 308

DigitSet == {Digits[i] : i \in 1..Len(Digits)}

IsDigits(s) == Len(s) > 0 /\ \A i \in 1..Len(s) : s[i] \in DigitSet

RECURSIVE DigitsValue(_)
DigitsValue(s) ==
  IF s = <<>> THEN 0
  ELSE DigitsValue(SubSeq(s, 1, Len(s) - 1)) * 10 + (IndexOf(Digits, s[Len(s)]) - 1)

RECURSIVE Pow10(_)
Pow10(n) == IF n <= 0 THEN 1 ELSE 10 * Pow10(n - 1)

\* The digits of s without its leading zeros.
RECURSIVE DropZeros(_)
DropZeros(s) == IF s # <<>> /\ s[1] = "0" THEN DropZeros(Tail(s)) ELSE s

\* An unsigned decimal numeral "ddd", "ddd.dd", "ddd." or ".dd" with an optional
\* exponent "e[+-]ddd", already lower-cased.  Result: [ok, f].  The value is
\* kept in hundredths: fractional digits after the second are cut, and a finite
\* value has to fit the integers of the checker, so the texts given to the
\* model carry at most two fractional digits and small finite magnitudes.
ParseDecimal(b) ==
  LET epos == IndexOf(b, "e")
      mant == IF epos = 0 THEN b ELSE SubSeq(b, 1, epos - 1)
      expo == IF epos = 0 THEN <<>> ELSE SubSeq(b, epos + 1, Len(b))
      esgn == expo # <<>> /\ expo[1] \in {"+", "-"}
      edig == IF esgn THEN Tail(expo) ELSE expo
      dot  == IndexOf(mant, ".")
      ip   == IF dot = 0 THEN mant ELSE SubSeq(mant, 1, dot - 1)
      fp   == IF dot = 0 THEN <<>> ELSE SubSeq(mant, dot + 1, Len(mant))
      wellFormed ==
        /\ \A i \in 1..Len(ip) : ip[i] \in DigitSet
        /\ \A i \in 1..Len(fp) : fp[i] \in DigitSet
        /\ Len(ip) + Len(fp) > 0
        /\ epos # 0 => IsDigits(edig)
      e    == IF epos = 0 THEN 0
              ELSE IF esgn /\ expo[1] = "-" THEN 0 - DigitsValue(edig)
              ELSE DigitsValue(edig)
      fp2  == SubSeq(fp \o <<"0", "0">>, 1, 2)
      m    == DigitsValue(ip) * Scale + DigitsValue(fp2)
      \* the power of ten at which the leading non-zero digit stands
      lead == IF DropZeros(ip) # <<>>
                THEN Len(DropZeros(ip)) - 1 + e
                ELSE e - 1 - (Len(fp) - Len(DropZeros(fp)))
  IN  IF ~wellFormed THEN [ok |-> FALSE, f |-> Fin(0)]
      ELSE IF DropZeros(ip \o fp) = <<>> THEN [ok |-> TRUE, f |-> Fin(0)]
      ELSE IF lead > FloatMaxExp10 THEN [ok |-> TRUE, f |-> Inf]
      ELSE IF e >= 0 THEN [ok |-> TRUE, f |-> Fin(m * Pow10(e))]
      ELSE IF 0 - e > 9 THEN [ok |-> TRUE, f |-> Fin(0)]
      ELSE [ok |-> TRUE, f |-> Fin(m \div Pow10(0 - e))]

Negate(f) ==
  CASE f.c = "fin"  -> Fin(0 - f.v)
    [] f.c = "inf"  -> NegInf
    [] f.c = "ninf" -> Inf
    [] OTHER        -> f

\* float(str): surrounding whitespace is dropped, the letters are read without
\* regard to case; an optional sign, then inf, infinity, nan or a decimal numeral.
ParseFloat(s) ==
  LET b    == lower(strip(s))
      sgn  == b # <<>> /\ b[1] \in {"+", "-"}
      body == IF sgn THEN Tail(b) ELSE b
      r    == IF body \in {<<"i","n","f">>, <<"i","n","f","i","n","i","t","y">>}
                THEN [ok |-> TRUE, f |-> Inf]
              ELSE IF body = <<"n","a","n">> THEN [ok |-> TRUE, f |-> NaN]
              ELSE ParseDecimal(body)
  IN  IF ~r.ok THEN [exc |-> "ValueError", val |-> Fin(0)]
      ELSE [exc |-> "", val |-> IF sgn /\ b[1] = "-" THEN Negate(r.f) ELSE r.f]

\* float(x) for a raw value x: [exc, val], exc the exception raised ("" when
\* none).  An int too large for a float raises OverflowError.
float(x) ==
  CASE x.t = "float" -> [exc |-> "", val |-> [c |-> x.c, v |-> x.v]]
    [] x.t = "int"   -> IF x.c = "fin"
                          THEN [exc |-> "", val |-> Fin(x.v * Scale)]
                          ELSE [exc |-> "OverflowError", val |-> Fin(0)]
    [] x.t = "str"   -> ParseFloat(x.s)
    [] OTHER         -> [exc |-> "TypeError", val |-> Fin(0)]

\* math.isfinite
isfinite(f) == f.c = "fin"

\* float < int and float > int, n in units.  A comparison with nan is false.
Lt(f, n) == (f.c = "fin" /\ f.v < n * Scale) \/ f.c = "ninf"
Gt(f, n) == (f.c = "fin" /\ f.v > n * Scale) \/ f.c = "inf"

-----------------------------------------------------------------------------
(* Configuration *)

Str_None     == <<"N","o","n","e">>
Str_Light    == <<"L","i","g","h","t">>
Str_Moderate == <<"M","o","d","e","r","a","t","e">>
Str_Heavy    == <<"H","e","a","v","y">>

VALID_EXUDATE_LEVELS == {Str_None, Str_Light, Str_Moderate, Str_Heavy}

CRITICAL_WOUND_AREA_THRESHOLD == 5
CRITICAL_PAIN_LEVEL_THRESHOLD == 7
GOOD_WOUND_AREA_THRESHOLD == 2
GOOD_PAIN_LEVEL_THRESHOLD == 3

\* Bounds of the pain scale in validate_inputs.
PAIN_MIN == 0
PAIN_MAX == 10

-----------------------------------------------------------------------------
(* Validation layer *)

ERR_AREA_NOT_NUMBER   == "woundArea must be a number"
ERR_AREA_NOT_FINITE   == "woundArea must be a finite number"
ERR_AREA_NEGATIVE     == "woundArea must not be negative"
ERR_PAIN_NOT_NUMBER   == "painLevel must be a number"
ERR_PAIN_NOT_FINITE   == "painLevel must be a finite number"
ERR_PAIN_OUT_OF_RANGE == "painLevel out of range (0~10)"
ERR_EXUDATE_NOT_STR   == "exudateLevel must be a string (None/Light/Moderate/Heavy)"
ERR_EXUDATE_EMPTY     == "exudateLevel must not be empty"
ERR_EXUDATE_NOT_VALID == "exudateLevel is not an allowed value (None/Light/Moderate/Heavy)"

\* The exceptions the two try blocks of validate_inputs catch.
CaughtByValidator == {"TypeError", "ValueError"}

\* An outcome of a call: exc = "" and the returned value, or the exception
\* that leaves the call.
Returns(value) == [exc |-> "", ret |-> value]
Raises(e)      == [exc |-> e, ret |-> <<>>]

\* The failure tuple of validate_inputs.
Invalid(message) == Returns(<<FALSE, message, Fin(0), Fin(0), <<>> >>)

\* pain_level_float < 0 or pain_level_float > 10
pain_out_of_range(pain_level_float) ==
  Lt(pain_level_float, PAIN_MIN) \/ Gt(pain_level_float, PAIN_MAX)

\* The exudateLevel part of validate_inputs: [ok, msg, val].
validate_exudate(exudate_level) ==
  IF exudate_level.t # "str" THEN [ok |-> FALSE, msg |-> ERR_EXUDATE_NOT_STR, val |-> <<>>]
  ELSE LET exudate_level_stripped == strip(exudate_level.s)
           exudate_level_normalized == capitalize(exudate_level_stripped)
       IN  IF exudate_level_stripped = <<>>
             THEN [ok |-> FALSE, msg |-> ERR_EXUDATE_EMPTY, val |-> <<>>]
           ELSE IF exudate_level_normalized \notin VALID_EXUDATE_LEVELS
             THEN [ok |-> FALSE, msg |-> ERR_EXUDATE_NOT_VALID, val |-> <<>>]
           ELSE [ok |-> TRUE, msg |-> "", val |-> exudate_level_normalized]

\* validate_inputs: Returns(<<is_valid, error message, area, pain, exudate>>),
\* or Raises(e) when float() raises an exception the try blocks do not catch.
validate_inputs(wound_area, pain_level, exudate_level) ==
  LET a == float(wound_area)
      p == float(pain_level)
      x == validate_exudate(exudate_level)
  IN  IF a.exc \in CaughtByValidator THEN Invalid(ERR_AREA_NOT_NUMBER)
      ELSE IF a.exc # "" THEN Raises(a.exc)
      ELSE IF ~isfinite(a.val) THEN Invalid(ERR_AREA_NOT_FINITE)
      ELSE IF Lt(a.val, 0) THEN Invalid(ERR_AREA_NEGATIVE)
      ELSE IF p.exc \in CaughtByValidator THEN Invalid(ERR_PAIN_NOT_NUMBER)
      ELSE IF p.exc # "" THEN Raises(p.exc)
      ELSE IF ~isfinite(p.val) THEN Invalid(ERR_PAIN_NOT_FINITE)
      ELSE IF pain_out_of_range(p.val) THEN Invalid(ERR_PAIN_OUT_OF_RANGE)
      ELSE IF ~x.ok THEN Invalid(x.msg)
      ELSE Returns(<<TRUE, "", a.val, p.val, x.val>>)

-----------------------------------------------------------------------------
(* Business logic layer *)

REASON_AREA      == "wound area greater than 5 cm2"
REASON_PAIN      == "pain level higher than 7"
REASON_EXUDATE   == "exudate level is Heavy"
REASON_GOOD      == "all indicators within the stable range"
REASON_WARNING   == "between Good and Critical, keep tracking"
ADVICE_CRITICAL  == "high risk, have a professional evaluate the wound promptly"
ADVICE_GOOD      == "stable, keep up basic cleaning and regular observation"
ADVICE_WARNING   == "needs attention, observe more often and watch pain and exudate"

\* A Critical check that stops at the first condition that triggers.
critical_reasons_first_only(wound_area, pain_level, exudate_level) ==
  IF Gt(wound_area, CRITICAL_WOUND_AREA_THRESHOLD) THEN <<REASON_AREA>>
  ELSE IF Gt(pain_level, CRITICAL_PAIN_LEVEL_THRESHOLD) THEN <<REASON_PAIN>>
  ELSE IF exudate_level = Str_Heavy THEN <<REASON_EXUDATE>>
  ELSE <<>>

\* A Critical check with the thresholds included (>= where the code has >).
critical_reasons_inclusive(wound_area, pain_level, exudate_level) ==
  (IF ~Lt(wound_area, CRITICAL_WOUND_AREA_THRESHOLD) THEN <<REASON_AREA>> ELSE <<>>)
  \o (IF ~Lt(pain_level, CRITICAL_PAIN_LEVEL_THRESHOLD) THEN <<REASON_PAIN>> ELSE <<>>)
  \o (IF exudate_level = Str_Heavy THEN <<REASON_EXUDATE>> ELSE <<>>)

\* The reasons list after the three Critical checks of assess.
critical_reasons(wound_area, pain_level, exudate_level) ==
  (IF Gt(wound_area, CRITICAL_WOUND_AREA_THRESHOLD) THEN <<REASON_AREA>> ELSE <<>>)
  \o (IF Gt(pain_level, CRITICAL_PAIN_LEVEL_THRESHOLD) THEN <<REASON_PAIN>> ELSE <<>>)
  \o (IF exudate_level = Str_Heavy THEN <<REASON_EXUDATE>> ELSE <<>>)

\* assess
assess(wound_area, pain_level, exudate_level) ==
  LET reasons == critical_reasons(wound_area, pain_level, exudate_level)
      is_area_good == Lt(wound_area, GOOD_WOUND_AREA_THRESHOLD)
      is_pain_good == Lt(pain_level, GOOD_PAIN_LEVEL_THRESHOLD)
      is_exudate_good == exudate_level \in {Str_None, Str_Light}
  IN  IF reasons # <<>>
        THEN [status |-> "Critical", reasons |-> reasons, advice |-> ADVICE_CRITICAL]
      ELSE IF is_area_good /\ is_pain_good /\ is_exudate_good
        THEN [status |-> "Good", reasons |-> <<REASON_GOOD>>, advice |-> ADVICE_GOOD]
      ELSE [status |-> "Warning", reasons |-> <<REASON_WARNING>>, advice |-> ADVICE_WARNING]

-----------------------------------------------------------------------------
(* Output formatting layer: a report is the sequence of its lines, a line  *)
(* the pair of its fixed label and its text.                               *)

format_error_output(error_message) ==
  << <<"Status", "Input Error">>,
     <<"Reason", error_message>>,
     <<"Advice", "the input is not correct, check the values and the format and enter again">> >>

format_assessment_output(result) ==
  << <<"Status", result.status>>, <<"Reasons", "">> >>
  \o [i \in 1..Len(result.reasons) |-> <<"  - ", result.reasons[i]>>]
  \o << <<"Advice", result.advice>> >>

-----------------------------------------------------------------------------
(* API interface layer *)

\* A call of assess that is handed the stripped text instead of the
\* normalized exudate level.
assess_arguments_unnormalized(validated, exudate_level) ==
  <<validated[3], validated[4], strip(exudate_level.s)>>

\* The arguments assess_wound_api passes to assess: the values validate_inputs
\* returned (validated is its tuple), not the caller's.
assess_arguments(validated, exudate_level) ==
  <<validated[3], validated[4], validated[5]>>

\* A failure response that also carries a data field.
api_failure_with_data(error_msg) ==
  [success |-> FALSE, error |-> error_msg,
   data |-> [status |-> "Input Error", reasons |-> <<>>, advice |-> ""]]

\* The response of assess_wound_api when validation fails.
api_failure(error_msg) == [success |-> FALSE, error |-> error_msg]

\* The response of assess_wound_api when validation succeeds.
api_success(assessment_result) == [success |-> TRUE, data |-> assessment_result]

\* assess_wound_api as one function: Returns(response) or Raises(e).
assess_wound_api(wound_area, pain_level, exudate_level) ==
  LET v == validate_inputs(wound_area, pain_level, exudate_level)
  IN  IF v.exc # "" THEN Raises(v.exc)
      ELSE IF ~v.ret[1] THEN Returns(api_failure(v.ret[2]))
      ELSE LET args == assess_arguments(v.ret, exudate_level)
           IN  Returns(api_success(assess(args[1], args[2], args[3])))

-----------------------------------------------------------------------------
(* Test data layer *)

Case(a, p, e) == [woundArea |-> a, painLevel |-> p, exudateLevel |-> e]

\* The float literal with the value h hundredths, and the str literals.
F(h) == PyFloat(Fin(h))
S_None     == PyStr(Str_None)
S_Light    == PyStr(Str_Light)
S_Moderate == PyStr(Str_Moderate)
S_Heavy    == PyStr(Str_Heavy)

get_test_cases ==
  << Case(F(150), PyInt(2), S_None),
     Case(F(300), PyInt(4), S_Light),
     Case(F(600), PyInt(2), S_Moderate),
     Case(F(100), PyInt(8), S_None),
     Case(F(200), PyInt(3), S_Heavy),
     \* boundary values
     Case(F(500), PyInt(2), S_None),
     Case(F(501), PyInt(2), S_None),
     Case(F(200), PyInt(7), S_None),
     Case(F(200), F(701), S_None),
     Case(F(200), PyInt(3), S_Light),
     Case(F(200), F(299), S_Light),
     Case(PyInt(0), PyInt(0), S_None),
     Case(PyInt(0), PyInt(10), S_Heavy),
     \* invalid inputs
     Case(PyInt(-1), PyInt(2), S_None),
     Case(PyInt(1), PyInt(11), S_None),
     Case(PyInt(1), PyInt(-1), S_None),
     Case(PyInt(1), PyInt(2), PyStr(<<"H","I","G","H">>)),
     Case(PyStr(<<"a","b","c">>), PyInt(2), S_None),
     Case(PyInt(1), PyStr(<<"x","y","z">>), S_None),
     Case(PyFloat(Inf), PyInt(2), S_None) >>

total_cases == Len(get_test_cases)

-----------------------------------------------------------------------------
(* The values callers pass *)

\* l spaces, the text w, r tabs.
Pad(l, w, r) == [i \in 1..l |-> " "] \o w \o [i \in 1..r |-> "\t"]

upper(s) == [i \in 1..Len(s) |-> UpperChar(s[i])]

\* Texts for the exudate level: the four levels, a word that is none of them,
\* a word with a blank inside and the empty text, each as written, in lower
\* case and in upper case, with up to MaxPad whitespace characters around it.
ExudateWords ==
  { Str_None, Str_Light, Str_Moderate, Str_Heavy,
    <<"H","i","g","h">>, <<"N","o"," ","n","e">>, <<>> }

ExudateTexts ==
  { Pad(l, w, r) : l \in 0..MaxPad, r \in 0..MaxPad,
                   w \in ExudateWords \cup {lower(x) : x \in ExudateWords}
                                      \cup {upper(x) : x \in ExudateWords} }

\* Texts typed or passed for a number.
AreaTexts ==
  { <<"1",".","5">>, <<" ","6"," ">>, <<"2">>, <<"a","b","c">>, <<>>,
    <<"1","e","4","0","0">>, <<"-","1">> }

PainTexts ==
  { <<"2">>, <<"2",".","9","9">>, <<"8">>, <<"1","1">>, <<"x","y","z">>,
    <<"n","a","n">>, <<"-","I","n","f">> }

\* Raw values a caller of assess_wound_api passes for woundArea.
AreaValues ==
  {F(h) : h \in {-1, 0, 199, 200, 500, 501}}
  \cup {PyInt(-1), PyInt(6), PyFloat(Inf), PyFloat(NaN), PyBigInt("huge"), PyNone}
  \cup {PyStr(s) : s \in {<<"a","b","c">>, <<" ","1",".","5"," ">>, <<"1","e","4","0","0">>}}

\* Raw values a caller passes for painLevel.
PainValues ==
  {F(h) : h \in {-1, 0, 299, 300, 700, 701, 1000, 1001}}
  \cup {PyInt(2), PyInt(11), PyFloat(NegInf), PyFloat(NaN), PyBigInt("huge"),
        PyBigInt("nhuge"), PyList}
  \cup {PyStr(s) : s \in {<<"x","y","z">>, <<"2",".","9","9">>}}

\* Raw values a caller passes for exudateLevel.
ExudateValues == {PyStr(s) : s \in ExudateTexts} \cup {PyInt(1), PyNone, PyList}

-----------------------------------------------------------------------------
(* Execution control layer: the program as a state machine *)

VARIABLES
  pc,           \* "idle": module loaded; "batch": in the loop of run_all_tests;
                \* "prompt": run_interactive_mode waits for input; "exited": main is over
  case_index,   \* number of table cases run_all_tests has finished
  caller,       \* who called the API: "none", "batch", "interactive", "client"
  apc,          \* position in assess_wound_api: "none", "validate", "reject",
                \* "assess", "returned", "raised"
  args,         \* the raw arguments of the call in progress
  validated,    \* what validate_inputs gave: Returns(tuple) or Raises(e)
  assess_args,  \* the arguments assess was invoked with, <<>> when it was not
  response,     \* what assess_wound_api gave: Returns(response) or Raises(e)
  console,      \* the reports printed so far
  exit          \* how main ended: "", "normal", "interrupt", "error"

vars == <<pc, case_index, caller, apc, args, validated, assess_args, response, console, exit>>

Pending == [exc |-> "pending", ret |-> <<>>]

NoCall ==
  /\ caller' = "none"
  /\ apc' = "none"
  /\ args' = <<>>
  /\ validated' = Pending
  /\ assess_args' = <<>>
  /\ response' = Pending

Call(who, a, p, e) ==
  /\ caller' = who
  /\ apc' = "validate"
  /\ args' = <<a, p, e>>
  /\ validated' = Pending
  /\ assess_args' = <<>>
  /\ response' = Pending

Init ==
  /\ pc = "idle"
  /\ case_index = 0
  /\ caller = "none"
  /\ apc = "none"
  /\ args = <<>>
  /\ validated = Pending
  /\ assess_args = <<>>
  /\ response = Pending
  /\ console = <<>>
  /\ exit = ""

\* A program that imported the module calls assess_wound_api.
ClientCall ==
  /\ pc = "idle" /\ apc = "none"
  /\ \E a \in AreaValues, p \in PainValues, e \in ExudateValues : Call("client", a, p, e)
  /\ UNCHANGED <<pc, case_index, console, exit>>

\* assess_wound_api, step 1: validate_inputs is called and returns or raises.
ApiValidate ==
  /\ apc = "validate"
  /\ validated' = validate_inputs(args[1], args[2], args[3])
  /\ apc' = IF validated'.exc # "" THEN "raised"
            ELSE IF validated'.ret[1] THEN "assess" ELSE "reject"
  /\ response' = IF validated'.exc # "" THEN Raises(validated'.exc) ELSE response
  /\ UNCHANGED <<pc, case_index, caller, args, assess_args, console, exit>>

\* assess_wound_api, step 2: validation failed, the failure response is returned.
ApiReject ==
  /\ apc = "reject"
  /\ response' = Returns(api_failure(validated.ret[2]))
  /\ apc' = "returned"
  /\ UNCHANGED <<pc, case_index, caller, args, validated, assess_args, console, exit>>

\* assess_wound_api, steps 3 and 4: assess is invoked and its result returned.
ApiAssess ==
  /\ apc = "assess"
  /\ assess_args' = assess_arguments(validated.ret, args[3])
  /\ response' = Returns(api_success(
                    assess(assess_args'[1], assess_args'[2], assess_args'[3])))
  /\ apc' = "returned"
  /\ UNCHANGED <<pc, case_index, caller, args, validated, console, exit>>

\* The importing program receives the response.
ClientReceive ==
  /\ caller = "client" /\ apc = "returned"
  /\ NoCall
  /\ UNCHANGED <<pc, case_index, console, exit>>

\* main starts run_all_tests, which prints its heading and enters the loop.
MainStart ==
  /\ pc = "idle" /\ apc = "none"
  /\ pc' = "batch"
  /\ UNCHANGED <<case_index, caller, apc, args, validated, assess_args, response,
                 console, exit>>

\* The case that follows a finished case in the loop of run_all_tests.
next_case(done) == done + 1

\* run_all_tests: the next case of the table is handed to run_single_case.
BatchCall ==
  /\ pc = "batch" /\ apc = "none" /\ case_index < total_cases
  /\ LET test_case == get_test_cases[next_case(case_index)]
     IN  Call("batch", test_case.woundArea, test_case.painLevel, test_case.exudateLevel)
  /\ UNCHANGED <<pc, case_index, console, exit>>

\* What run_single_case prints for a response.
report(api_result) ==
  IF ~api_result.success
    THEN format_error_output(api_result.error)
    ELSE format_assessment_output(api_result.data)

\* A run_single_case that ends the run when the response is a failure.
RunSingleCaseStopOnError ==
  /\ caller \in {"batch", "interactive"} /\ apc = "returned"
  /\ console' = Append(console, [input |-> args, lines |-> report(response.ret)])
  /\ case_index' = IF caller = "batch" THEN next_case(case_index) ELSE case_index
  /\ pc' = IF caller = "interactive" \/ ~response.ret.success THEN "exited" ELSE pc
  /\ exit' = IF ~response.ret.success THEN "error"
             ELSE IF caller = "interactive" THEN "normal" ELSE exit
  /\ NoCall

\* run_single_case prints the report; the loop of run_all_tests goes on, and
\* main returns after the report of the interactive case.
RunSingleCasePrint ==
  /\ caller \in {"batch", "interactive"} /\ apc = "returned"
  /\ console' = Append(console, [input |-> args, lines |-> report(response.ret)])
  /\ case_index' = IF caller = "batch" THEN next_case(case_index) ELSE case_index
  /\ pc' = IF caller = "interactive" THEN "exited" ELSE pc
  /\ exit' = IF caller = "interactive" THEN "normal" ELSE exit
  /\ NoCall

\* run_all_tests prints its closing lines and run_interactive_mode prompts.
BatchEnd ==
  /\ pc = "batch" /\ apc = "none" /\ case_index >= total_cases
  /\ pc' = "prompt"
  /\ UNCHANGED <<case_index, caller, apc, args, validated, assess_args, response,
                 console, exit>>

\* The operator types three lines; each is stripped and passed on as a str.
PromptInput ==
  /\ pc = "prompt" /\ apc = "none"
  /\ \E a \in AreaTexts, p \in PainTexts, e \in ExudateTexts :
       Call("interactive", PyStr(strip(a)), PyStr(strip(p)), PyStr(strip(e)))
  /\ UNCHANGED <<pc, case_index, console, exit>>

\* input() meets the end of its input: EOFError, caught by main's
\* except Exception.
PromptEOF ==
  /\ pc = "prompt" /\ apc = "none"
  /\ pc' = "exited" /\ exit' = "error"
  /\ UNCHANGED <<case_index, caller, apc, args, validated, assess_args, response, console>>

\* An exception leaves assess_wound_api: it reaches the importing program, or
\* main's except Exception.
ExceptionPropagates ==
  /\ apc = "raised"
  /\ NoCall
  /\ pc' = IF caller = "client" THEN pc ELSE "exited"
  /\ exit' = IF caller = "client" THEN exit ELSE "error"
  /\ UNCHANGED <<case_index, console>>

\* Ctrl+C while main runs: main's except KeyboardInterrupt.
KeyboardInterrupt ==
  /\ pc \in {"batch", "prompt"}
  /\ pc' = "exited" /\ exit' = "interrupt"
  /\ NoCall
  /\ UNCHANGED <<case_index, console>>

\* The steps main takes by itself, without the operator.
MainStep ==
  \/ (pc = "batch" /\ ApiValidate)
  \/ (pc = "batch" /\ ApiReject)
  \/ (pc = "batch" /\ ApiAssess)
  \/ (pc = "batch" /\ ExceptionPropagates)
  \/ (pc = "batch" /\ RunSingleCasePrint)
  \/ BatchCall
  \/ BatchEnd

Next ==
  \/ ClientCall
  \/ ApiValidate
  \/ ApiReject
  \/ ApiAssess
  \/ ClientReceive
  \/ ExceptionPropagates
  \/ MainStart
  \/ BatchCall
  \/ RunSingleCasePrint
  \/ BatchEnd
  \/ PromptInput
  \/ PromptEOF
  \/ KeyboardInterrupt

Spec == Init /\ [][Next]_vars

\* The interpreter runs main's code to its next statement unless interrupted.
FairSpec == Spec /\ WF_vars(MainStep)

-----------------------------------------------------------------------------
(* Properties *)

\* validate_inputs has been called in the call in progress and is over.
ValidateOver == validated.exc # "pending"
\* validate_inputs returned its tuple.
ValidateReturned == validated.exc = ""
\* assess_wound_api returned a response.
ApiReturned == response.exc = ""

\* What the raw value x is as a number, read without float(): a number, or
\* text that spells one.
IsNumber(x) == x.t \in {"int", "float"} \/ (x.t = "str" /\ ParseFloat(x.s).exc = "")
IsFiniteNumber(x) ==
  \/ x.t = "int"
  \/ x.t = "float" /\ x.c = "fin"
  \/ x.t = "str" /\ ParseFloat(x.s).exc = "" /\ ParseFloat(x.s).val.c = "fin"
\* The finite number x against n units.
BelowUnits(x, n) ==
  CASE x.t = "int"   -> x.c = "nhuge" \/ (x.c = "fin" /\ x.v < n)
    [] x.t = "float" -> x.v < n * Scale
    [] OTHER         -> ParseFloat(x.s).val.v < n * Scale
AboveUnits(x, n) ==
  CASE x.t = "int"   -> x.c = "huge" \/ (x.c = "fin" /\ x.v > n)
    [] x.t = "float" -> x.v > n * Scale
    [] OTHER         -> ParseFloat(x.s).val.v > n * Scale

\* The canonical exudate level of a text.
Canonical(s) == capitalize(strip(s))

\* C1: for a call whose area and pain are numbers or numeric text and whose
\* exudate is text, validate_inputs returns is_valid = TRUE exactly when area is
\* finite and >= 0, pain is finite and within 0..10 (ends included), and the
\* trimmed, capitalized exudate is one of None, Light, Moderate, Heavy.
C1_ValidIffAllConstraints ==
  (ValidateOver /\ IsNumber(args[1]) /\ IsNumber(args[2]) /\ args[3].t = "str")
  => ( (ValidateReturned /\ validated.ret[1])
       <=> ( /\ IsFiniteNumber(args[1]) /\ ~BelowUnits(args[1], 0)
             /\ IsFiniteNumber(args[2])
             /\ ~BelowUnits(args[2], 0) /\ ~AboveUnits(args[2], 10)
             /\ Canonical(args[3].s) \in {Str_None, Str_Light, Str_Moderate, Str_Heavy} ) )

\* C2: whatever the types and magnitudes of the three raw values,
\* validate_inputs and assess_wound_api return a value and raise nothing.
C2_NeverRaises ==
  /\ validated.exc \in {"pending", ""}
  /\ response.exc \in {"pending", ""}

\* The nine checks of the validator in their fixed order, each decided on the
\* raw values alone: TRUE where the check fails.
FailingChecks(a, p, e) ==
  << ~IsNumber(a),
     IsNumber(a) /\ ~IsFiniteNumber(a),
     IsFiniteNumber(a) /\ BelowUnits(a, 0),
     ~IsNumber(p),
     IsNumber(p) /\ ~IsFiniteNumber(p),
     IsFiniteNumber(p) /\ (BelowUnits(p, 0) \/ AboveUnits(p, 10)),
     e.t # "str",
     e.t = "str" /\ strip(e.s) = <<>>,
     e.t = "str" /\ strip(e.s) # <<>> /\ Canonical(e.s) \notin VALID_EXUDATE_LEVELS >>

CheckErrors ==
  << ERR_AREA_NOT_NUMBER, ERR_AREA_NOT_FINITE, ERR_AREA_NEGATIVE,
     ERR_PAIN_NOT_NUMBER, ERR_PAIN_NOT_FINITE, ERR_PAIN_OUT_OF_RANGE,
     ERR_EXUDATE_NOT_STR, ERR_EXUDATE_EMPTY, ERR_EXUDATE_NOT_VALID >>

\* C3: when several checks fail for one input, validate_inputs reports one
\* error, that of the first failing check in the order area not numeric, not
\* finite, negative; pain not numeric, not finite, out of range; exudate not
\* text, empty, not allowed, with the placeholders for the values.
C3_FirstFailingCheckReported ==
  ValidateOver =>
    LET f == FailingChecks(args[1], args[2], args[3])
        failing == {i \in 1..Len(f) : f[i]}
    IN  Cardinality(failing) >= 2 =>
          LET first == CHOOSE i \in failing : \A j \in failing : i <= j
          IN  validated = Invalid(CheckErrors[first])

\* n units in hundredths (5 is 500), the scale of the finite floats.
Hundredths(n) == n * 10 * 10

C5_Reasons ==
  (ApiReturned /\ assess_args # <<>>) =>
    LET area     == assess_args[1].v
        pain     == assess_args[2].v
        exudate  == assess_args[3]
        data     == response.ret.data
        expected == (IF area > Hundredths(5) THEN <<REASON_AREA>> ELSE <<>>)
                    \o (IF pain > Hundredths(7) THEN <<REASON_PAIN>> ELSE <<>>)
                    \o (IF exudate = Str_Heavy THEN <<REASON_EXUDATE>> ELSE <<>>)
    IN  /\ data.status = "Critical" =>
             data.reasons = expected /\ Len(data.reasons) \in 1..3
        /\ (area = 0 /\ pain = Hundredths(10) /\ exudate = Str_Heavy) =>
             data.reasons = <<REASON_PAIN, REASON_EXUDATE>>
        /\ data.status = "Good" => data.reasons = <<REASON_GOOD>>
        /\ data.status = "Warning" => data.reasons = <<REASON_WARNING>>

\* C5's case: the table's multi-trigger case (0, 10, Heavy) was assessed and
\* came back Critical with two reasons.
C5_Witness ==
  /\ ApiReturned /\ caller = "batch"
  /\ args = <<PyInt(0), PyInt(10), S_Heavy>>
  /\ response.ret.data.status = "Critical"
  /\ Len(response.ret.data.reasons) = 2

\* C6: for the table's case woundArea 2.0, painLevel 2.99, exudateLevel Light,
\* assess_wound_api returns status Good.
C6_BoundaryCaseIsGood ==
  (ApiReturned /\ args = <<F(200), F(299), S_Light>>) =>
    (response.ret.success /\ response.ret.data.status = "Good")

\* C7: a value assess_wound_api returns is [success FALSE, error] with a
\* non-empty message and no data, exactly when validation failed, or
\* [success TRUE, data] with no error, data.status one of Good, Warning,
\* Critical, data.reasons non-empty and data.advice one text, exactly when
\* validation succeeded.
C7_ResponseShape ==
  ApiReturned =>
    LET r == response.ret
    IN  \/ /\ DOMAIN r = {"success", "error"}
           /\ r.success = FALSE
           /\ r.error \in {CheckErrors[i] : i \in 1..Len(CheckErrors)}
           /\ r.error # ""
           /\ ~validated.ret[1]
        \/ /\ DOMAIN r = {"success", "data"}
           /\ r.success = TRUE
           /\ DOMAIN r.data = {"status", "reasons", "advice"}
           /\ r.data.status \in {"Good", "Warning", "Critical"}
           /\ Len(r.data.reasons) >= 1
           /\ r.data.advice \in {ADVICE_GOOD, ADVICE_WARNING, ADVICE_CRITICAL}
           /\ validated.ret[1]

\* C7's case: a failure response has been returned for an invalid input.
C7_Witness ==
  /\ ApiReturned /\ ~validated.ret[1]
  /\ response.ret.success = FALSE
  /\ response.ret.error = ERR_PAIN_OUT_OF_RANGE

\* The texts s and u differ at most in letter case and in the whitespace
\* before and after: each is whitespace, a core, whitespace, and the two cores
\* have the same letters.
SameLetter(c, d) ==
  \/ c = d
  \/ \E i \in 1..Len(LowerLetters) :
       {c, d} = {LowerLetters[i], UpperLetters[i]}

AllWhitespace(s, from, to) == \A i \in from..to : s[i] \in Whitespace

DifferOnlyInCaseAndPadding(s, u) ==
  \E i \in 1..(Len(s) + 1), k \in 1..(Len(u) + 1) :
    \E n \in 0..Len(s) :
      /\ i + n - 1 <= Len(s) /\ k + n - 1 <= Len(u)
      /\ AllWhitespace(s, 1, i - 1) /\ AllWhitespace(s, i + n, Len(s))
      /\ AllWhitespace(u, 1, k - 1) /\ AllWhitespace(u, k + n, Len(u))
      /\ \A j \in 0..(n - 1) : SameLetter(s[i + j], u[k + j])

\* For each exudate text, the exudate texts that differ from it only so.
Variants ==
  [s \in ExudateTexts |-> {u \in ExudateTexts : DifferOnlyInCaseAndPadding(s, u)}]

\* C8: canonicalizing a canonical exudate level gives it back, and two texts
\* that differ only in letter case or in surrounding whitespace get the same
\* outcome of validation (with the same canonical level) and the same response.
C8_CanonicalizationInsensitive ==
  (ValidateOver /\ args[3].t = "str") =>
    /\ (ValidateReturned /\ validated.ret[1]) =>
         Canonical(validated.ret[5]) = validated.ret[5]
    /\ \A u \in Variants[args[3].s] :
           /\ validate_inputs(args[1], args[2], PyStr(u)) = validated
           /\ response.exc # "pending" =>
                assess_wound_api(args[1], args[2], PyStr(u)) = response

\* C8's case: " heavy" followed by a tab was validated and became Heavy.
C8_Witness ==
  /\ ValidateReturned /\ validated.ret[1]
  /\ args[3] = PyStr(<<" ","h","e","a","v","y","\t">>)
  /\ validated.ret[5] = Str_Heavy

\* The table case i is one the validator rejects.
TableCaseInvalid(i) == i >= 14

\* C9, the part about every state: while the batch runs, the console holds one
\* report per finished case, in table order, an error report for a case that
\* fails validation and an assessment otherwise; the prompt is reached with all
\* 20 cases reported; main ends before that only by an interrupt.
C9_BatchReports ==
  /\ pc \in {"batch", "prompt"} =>
       /\ Len(console) = case_index
       /\ \A i \in 1..Len(console) :
            /\ console[i].input = << get_test_cases[i].woundArea,
                                     get_test_cases[i].painLevel,
                                     get_test_cases[i].exudateLevel >>
            /\ TableCaseInvalid(i) <=> console[i].lines[1] = <<"Status", "Input Error">>
            /\ ~TableCaseInvalid(i) =>
                 console[i].lines[1][2] \in {"Good", "Warning", "Critical"}
  /\ pc = "prompt" => case_index = 20 /\ Len(console) = 20
  /\ (pc = "exited" /\ Len(console) < 20) => exit = "interrupt"

\* C9: the batch feeds every case of the table to the core in order and prints
\* one report per case, going on after an error report, so that every run
\* reaches the interactive prompt with all 20 cases done unless the operator
\* interrupts it.
C9_BatchRunsToPrompt ==
  /\ []C9_BatchReports
  /\ (pc = "batch") ~> ((pc = "prompt" /\ case_index = 20) \/ exit = "interrupt")

\* C9's case: the prompt is reached after an error report was printed.
C9_Witness ==
  /\ pc = "prompt" /\ Len(console) = 20
  /\ console[14].lines[1] = <<"Status", "Input Error">>
  /\ console[20].lines[2] = <<"Reason", ERR_AREA_NOT_FINITE>>

\* C10: assess is invoked only after validate_inputs returned success, and with
\* the values it returned: a finite area >= 0, a finite pain in 0..10 and one
\* of the four canonical levels; after a failed validation assess is not
\* invoked and the returned values are 0.0, 0.0 and "".
C10_AssessSeesValidatedOnly ==
  /\ assess_args # <<>> =>
       /\ ValidateReturned /\ validated.ret[1]
       /\ assess_args = <<validated.ret[3], validated.ret[4], validated.ret[5]>>
       /\ assess_args[1].c = "fin" /\ assess_args[1].v >= 0
       /\ assess_args[2].c = "fin"
       /\ assess_args[2].v >= 0 /\ assess_args[2].v <= Hundredths(10)
       /\ assess_args[3] \in {Str_None, Str_Light, Str_Moderate, Str_Heavy}
  /\ (ValidateReturned /\ ~validated.ret[1]) =>
       /\ assess_args = <<>>
       /\ validated.ret[3] = Fin(0) /\ validated.ret[4] = Fin(0)
       /\ validated.ret[5] = <<>>
  /\ (ApiReturned /\ response.ret.success) => assess_args # <<>>

\* C10's case: assess was invoked for a raw text that is not canonical and
\* raw numbers given as text.
C10_Witness ==
  /\ assess_args # <<>>
  /\ args[1].t = "str" /\ args[3].s # assess_args[3]
  /\ assess_args[3] = Str_Moderate

====
